---- MODULE Spec2Model ----
(***************************************************************************)
(* Model of graphql-fields-list (src/unnamed/part_003): the three entry    *)
(* points fieldsMap, fieldsList and fieldsProjection and the helpers they  *)
(* call.                                                                   *)
(*                                                                         *)
(* Representation of JavaScript values:                                    *)
(*   - a string is a sequence of one-character strings, so that split,     *)
(*     concatenation and wildcard matching are computed, not assumed;      *)
(*   - undefined, null, booleans are tagged records (field t);             *)
(*   - a dictionary object whose key order is observable (the field tree,  *)
(*     the skip tree, the projection, the fragment table, the variable     *)
(*     bindings, the transform table) is [t |-> "object", e |-> entries],  *)
(*     entries being the own properties in insertion order;                *)
(*   - an object with a fixed shape (info, options, AST nodes) is a record *)
(*     whose DOMAIN is the set of its own properties.                      *)
(* The variables info and options are the objects the caller holds, call   *)
(* the arguments of the last call as they were passed, ret what it         *)
(* returned; run is the activation of a call that is followed statement by *)
(* statement: its position and its locals.                                 *)
(* Property reads see own properties only: field, fragment and variable    *)
(* names are taken from a schema that does not use the member names of     *)
(* Object.prototype.                                                       *)
(***************************************************************************)
EXTENDS Integers, Sequences, FiniteSets, TLC

VARIABLES info, options, call, ret, run

vars == <<info, options, call, ret, run>>

----
\* JavaScript values

Undefined == [t |-> "undefined"]

Null == [t |-> "null"]

True == [t |-> "bool", v |-> TRUE]

False == [t |-> "bool", v |-> FALSE]

EmptyString == [t |-> "str", v |-> <<>>]

Throw == [t |-> "throw", error |-> "TypeError"]

Obj(entries) == [t |-> "object", e |-> entries]

Arr(items) == [t |-> "array", v |-> items]

IsObj(x) == x.t = "object"

\* ToBoolean of a tagged value
Truthy(x) ==
    CASE x.t = "undefined" -> FALSE
      [] x.t = "null" -> FALSE
      [] x.t = "bool" -> x.v
      [] x.t = "str" -> x.v # <<>>
      [] OTHER -> TRUE

\* obj[key] for own properties of a dictionary object
Lookup(obj, key) ==
    IF \E i \in 1..Len(obj.e) : obj.e[i].k = key
    THEN LET i == CHOOSE j \in 1..Len(obj.e) : obj.e[j].k = key IN obj.e[i].v
    ELSE Undefined

\* obj[key] = val: an existing key keeps its position, a new key is appended
Assign(obj, key, val) ==
    IF \E i \in 1..Len(obj.e) : obj.e[i].k = key
    THEN Obj([i \in 1..Len(obj.e) |->
                 IF obj.e[i].k = key THEN [k |-> key, v |-> val] ELSE obj.e[i]])
    ELSE Obj(Append(obj.e, [k |-> key, v |-> val]))

\* Object.keys(obj)
Keys(obj) == [i \in 1..Len(obj.e) |-> obj.e[i].k]

\* record.prop for a fixed-shape object; an absent property reads undefined
Prop(rec, p) == IF p \in DOMAIN rec THEN rec[p] ELSE Undefined

\* String.prototype.split(sep) for a one-character separator
RECURSIVE SplitFrom(_, _, _)
SplitFrom(str, sep, acc) ==
    IF str = <<>> THEN <<acc>>
    ELSE IF Head(str) = sep
         THEN <<acc>> \o SplitFrom(Tail(str), sep, <<>>)
         ELSE SplitFrom(Tail(str), sep, Append(acc, Head(str)))

Split(str, sep) == SplitFrom(str, sep, <<>>)

\* new RegExp(pattern.replace(/\*/g, '.*')).test(node), for patterns whose
\* other characters are name characters: an unanchored search in which each
\* * stands for any run of characters
RECURSIVE MatchHere(_, _)
MatchHere(pattern, str) ==
    IF pattern = <<>> THEN TRUE
    ELSE IF Head(pattern) = "*"
         THEN \E j \in 0..Len(str) :
                  MatchHere(Tail(pattern), SubSeq(str, j + 1, Len(str)))
         ELSE /\ str # <<>>
              /\ Head(str) = Head(pattern)
              /\ MatchHere(Tail(pattern), Tail(str))

\* mutant of RxTest: the search is anchored at the start of the name
RxTestFromStart(pattern, str) == MatchHere(pattern, str)

RxTest(pattern, str) ==
    \E i \in 0..Len(str) : MatchHere(pattern, SubSeq(str, i + 1, Len(str)))

----
\* Directive evaluator

getNodes(selection) ==
    IF /\ "selectionSet" \in DOMAIN selection
       /\ Truthy(selection.selectionSet)
       /\ "selections" \in DOMAIN selection.selectionSet
       /\ Truthy(selection.selectionSet.selections)
    THEN selection.selectionSet.selections.v
    ELSE <<>>

\* mutant of checkValue: skip lets the node pass on true
checkValueSame(name, value) ==
    IF name = "skip" THEN value
    ELSE IF name = "include" THEN value
    ELSE True

\* returns the JavaScript value of the conditional expression
checkValue(name, value) ==
    IF name = "skip" THEN (IF Truthy(value) THEN False ELSE True)
    ELSE IF name = "include" THEN value
    ELSE True

\* mutant of verifyDirectiveArg: a variable without a binding is no constraint
verifyDirectiveArgBoundOnly(name, arg, vbl) ==
    CASE arg.value.kind = "BooleanValue" -> checkValue(name, arg.value.value)
      [] arg.value.kind = "Variable" ->
             IF Lookup(vbl, arg.value.name.value) = Undefined THEN True
             ELSE checkValue(name, Lookup(vbl, arg.value.name.value))
      [] OTHER -> True

verifyDirectiveArg(name, arg, vbl) ==
    CASE arg.value.kind = "BooleanValue" -> checkValue(name, arg.value.value)
      [] arg.value.kind = "Variable" ->
             checkValue(name, Lookup(vbl, arg.value.name.value))
      [] OTHER -> True

\* mutant of verifyDirective: only conditions with arguments pass
verifyDirectiveStrict(directive, vbl) ==
    LET directiveName == directive.name.value
        given == Prop(directive, "arguments")
        args == IF Truthy(given) /\ given.t = "array" /\ Len(given.v) > 0
                THEN given.v ELSE <<>>
    IN  /\ directiveName \in {"include", "skip"}
        /\ args # <<>>
        /\ \A i \in 1..Len(args) :
               Truthy(verifyDirectiveArg(directiveName, args[i], vbl))

verifyDirective(directive, vbl) ==
    LET directiveName == directive.name.value
        given == Prop(directive, "arguments")
        args == IF Truthy(given) /\ given.t = "array" /\ Len(given.v) > 0
                THEN given.v ELSE <<>>
    IN  IF directiveName \notin {"include", "skip"} THEN TRUE
        ELSE \A i \in 1..Len(args) :
                 Truthy(verifyDirectiveArg(directiveName, args[i], vbl))

verifyDirectives(directives, vbl) ==
    IF ~Truthy(directives) \/ Len(directives.v) = 0 THEN TRUE
    ELSE LET vs == IF Truthy(vbl) THEN vbl ELSE Obj(<<>>)
         IN  \A i \in 1..Len(directives.v) : verifyDirective(directives.v[i], vs)

----
\* Pattern matcher

\* mutant of skipProps: a closing wildcard is a segment like any other
RECURSIVE skipPropsNoSuffix(_, _, _)
skipPropsNoSuffix(propTree, props, i) ==
    IF i > Len(props) THEN propTree
    ELSE IF ~IsObj(propTree) THEN Throw
    ELSE LET prop == props[i]
             cur == Lookup(propTree, prop)
             sub == skipPropsNoSuffix(
                        IF Truthy(cur) THEN cur
                        ELSE IF i = Len(props) THEN True ELSE Obj(<<>>),
                        props, i + 1)
         IN  IF sub = Throw THEN Throw ELSE Assign(propTree, prop, sub)

\* the inner loop of skipTree from index i on: the value stored for the
\* current key after the rest of the pattern has been walked, or Throw when
\* the walk assigns a property on the boolean true (the module is strict code)
RECURSIVE skipProps(_, _, _)
skipProps(propTree, props, i) ==
    IF i > Len(props) THEN propTree
    ELSE IF ~IsObj(propTree) THEN Throw
    ELSE LET prop == props[i]
             all == i + 1 <= Len(props) /\ props[i + 1] = <<"*">>
             cur == Lookup(propTree, prop)
         IN  IF ~Truthy(cur)
             THEN LET made == IF i = Len(props) \/ all THEN True ELSE Obj(<<>>)
                      sub == skipProps(made, props, IF all THEN i + 2 ELSE i + 1)
                  IN  IF sub = Throw THEN Throw ELSE Assign(propTree, prop, sub)
             ELSE LET sub == skipProps(cur, props, i + 1)
                  IN  IF sub = Throw THEN Throw ELSE Assign(propTree, prop, sub)

RECURSIVE skipPatterns(_, _)
skipPatterns(tree, skip) ==
    IF skip = <<>> THEN tree
    ELSE LET next == skipProps(tree, Split(Head(skip), "."), 1)
         IN  IF next = Throw THEN Throw ELSE skipPatterns(next, Tail(skip))

skipTree(skip) == skipPatterns(Obj(<<>>), skip)

\* mutant of skipScan: the first nested scope that matches is kept
RECURSIVE skipScanFirst(_, _, _, _)
skipScanFirst(node, skip, i, nodeTree) ==
    IF i > Len(skip.e) THEN nodeTree
    ELSE LET pattern == skip.e[i].k
         IN  IF (\E j \in 1..Len(pattern) : pattern[j] = "*") /\ RxTest(pattern, node)
             THEN IF skip.e[i].v = True THEN True
                  ELSE skipScanFirst(node, skip, i + 1,
                                     IF nodeTree = False THEN skip.e[i].v ELSE nodeTree)
             ELSE skipScanFirst(node, skip, i + 1, nodeTree)

\* the wildcard scan of verifySkip over the keys from index i on
RECURSIVE skipScan(_, _, _, _)
skipScan(node, skip, i, nodeTree) ==
    IF i > Len(skip.e) THEN nodeTree
    ELSE LET pattern == skip.e[i].k
         IN  IF (\E j \in 1..Len(pattern) : pattern[j] = "*") /\ RxTest(pattern, node)
             THEN IF skip.e[i].v = True THEN True
                  ELSE skipScan(node, skip, i + 1, skip.e[i].v)
             ELSE skipScan(node, skip, i + 1, nodeTree)

verifySkip(node, skip) ==
    IF ~Truthy(skip) THEN False
    ELSE IF Truthy(Lookup(skip, node)) THEN Lookup(skip, node)
    ELSE skipScan(node, skip, 1, False)

----
\* Tree builder

\* mutant of rootEntry: every occurrence starts a fresh entry
rootEntryFresh(root, name, nodes) ==
    IF Len(nodes) > 0 THEN Obj(<<>>) ELSE False

\* mutant of rootEntry: an occurrence without sub-selection makes a leaf
rootEntryLeafWins(root, name, nodes) ==
    IF Len(nodes) = 0 THEN False
    ELSE IF Truthy(Lookup(root, name)) THEN Lookup(root, name) ELSE Obj(<<>>)

\* root[name] || (nodes.length ? {} : false)
rootEntry(root, name, nodes) ==
    IF Truthy(Lookup(root, name)) THEN Lookup(root, name)
    ELSE IF Len(nodes) > 0 THEN Obj(<<>>) ELSE False

RECURSIVE traverse(_, _, _, _)
\* mutant of verifyInlineFragment: the nested selections are not walked
verifyInlineFragmentSkipped(node, root, opts, skip) ==
    [handled |-> node.kind = "InlineFragment", root |-> root]

verifyInlineFragment(node, root, opts, skip) ==
    IF node.kind = "InlineFragment"
    THEN [handled |-> TRUE,
          root |-> IF Len(getNodes(node)) > 0
                   THEN traverse(getNodes(node), root, opts, skip) ELSE root]
    ELSE [handled |-> FALSE, root |-> root]

\* mutant of traverseNode: directives are verified whatever withVars says
traverseNodeVerifying(node, root, opts, skip) ==
    IF ~verifyDirectives(Prop(node, "directives"), opts.vars)
    THEN root
    ELSE IF verifyInlineFragment(node, root, opts, skip).handled
    THEN verifyInlineFragment(node, root, opts, skip).root
    ELSE LET name == node.name.value
         IN  IF Truthy(Lookup(opts.fragments, name))
             THEN traverse(getNodes(Lookup(opts.fragments, name)), root, opts, skip)
             ELSE LET nodes == getNodes(node)
                      nodeSkip == verifySkip(name, skip)
                      entry == rootEntry(root, name, nodes)
                  IN  IF nodeSkip = True THEN root
                      ELSE IF Len(nodes) > 0
                           THEN Assign(root, name, traverse(nodes, entry, opts, nodeSkip))
                           ELSE Assign(root, name, entry)

\* mutant of traverseNode: an aliased field is entered under its alias
traverseNodeByAlias(node, root, opts, skip) ==
    IF Truthy(opts.withVars) /\ ~verifyDirectives(Prop(node, "directives"), opts.vars)
    THEN root
    ELSE IF verifyInlineFragment(node, root, opts, skip).handled
    THEN verifyInlineFragment(node, root, opts, skip).root
    ELSE LET name == IF "alias" \in DOMAIN node THEN node.alias.value
                     ELSE node.name.value
         IN  IF Truthy(Lookup(opts.fragments, name))
             THEN traverse(getNodes(Lookup(opts.fragments, name)), root, opts, skip)
             ELSE LET nodes == getNodes(node)
                      nodeSkip == verifySkip(name, skip)
                      entry == rootEntry(root, name, nodes)
                  IN  IF nodeSkip = True THEN root
                      ELSE IF Len(nodes) > 0
                           THEN Assign(root, name, traverse(nodes, entry, opts, nodeSkip))
                           ELSE Assign(root, name, entry)

\* one iteration of the loop of traverse
traverseNode(node, root, opts, skip) ==
    IF Truthy(opts.withVars) /\ ~verifyDirectives(Prop(node, "directives"), opts.vars)
    THEN root
    ELSE IF verifyInlineFragment(node, root, opts, skip).handled
    THEN verifyInlineFragment(node, root, opts, skip).root
    ELSE LET name == node.name.value
         IN  IF Truthy(Lookup(opts.fragments, name))
             THEN traverse(getNodes(Lookup(opts.fragments, name)), root, opts, skip)
             ELSE LET nodes == getNodes(node)
                      nodeSkip == verifySkip(name, skip)
                      entry == rootEntry(root, name, nodes)
                  IN  IF nodeSkip = True THEN root
                      ELSE IF Len(nodes) > 0
                           THEN Assign(root, name, traverse(nodes, entry, opts, nodeSkip))
                           ELSE Assign(root, name, entry)

traverse(nodes, root, opts, skip) ==
    IF nodes = <<>> THEN root
    ELSE traverse(Tail(nodes), traverseNode(Head(nodes), root, opts, skip), opts, skip)

----
\* View extractor

\* mutant of getBranchFrom: a missing name ends the walk at the parent
RECURSIVE getBranchFromParent(_, _)
getBranchFromParent(branch, names) ==
    IF names = <<>> THEN branch
    ELSE IF ~Truthy(Lookup(branch, Head(names))) THEN branch
    ELSE getBranchFromParent(Lookup(branch, Head(names)), Tail(names))

RECURSIVE getBranchFrom(_, _)
getBranchFrom(branch, names) ==
    IF names = <<>> THEN branch
    ELSE IF ~Truthy(Lookup(branch, Head(names))) THEN Obj(<<>>)
    ELSE getBranchFrom(Lookup(branch, Head(names)), Tail(names))

getBranch(tree, path) ==
    IF ~Truthy(path) THEN tree ELSE getBranchFrom(tree, Split(path.v, "."))

----
\* Input validation and options

\* mutant of verifyFieldNode: the last node of the declared name is taken
verifyFieldNodeLast(inf) ==
    LET fieldNodes == inf.fieldNodes.v
        found == {i \in 1..Len(fieldNodes) :
                     /\ "name" \in DOMAIN fieldNodes[i]
                     /\ "fieldName" \in DOMAIN inf
                     /\ fieldNodes[i].name.value = inf.fieldName}
        fieldNode == IF found = {} THEN Undefined
                     ELSE fieldNodes[CHOOSE i \in found : \A j \in found : j <= i]
    IN  IF fieldNode # Undefined /\ Truthy(Prop(fieldNode, "selectionSet"))
        THEN fieldNode ELSE Null

\* mutant of verifyFieldNode: the first node is taken whatever its name
verifyFieldNodeFirst(inf) ==
    LET fieldNodes == inf.fieldNodes.v
    IN  IF Len(fieldNodes) > 0 /\ Truthy(Prop(fieldNodes[1], "selectionSet"))
        THEN fieldNodes[1] ELSE Null

verifyFieldNode(inf) ==
    LET fieldNodes == inf.fieldNodes.v
        found == {i \in 1..Len(fieldNodes) :
                     /\ "name" \in DOMAIN fieldNodes[i]
                     /\ "fieldName" \in DOMAIN inf
                     /\ fieldNodes[i].name.value = inf.fieldName}
        fieldNode == IF found = {} THEN Undefined
                     ELSE fieldNodes[CHOOSE i \in found : \A j \in found : i <= j]
    IN  IF fieldNode # Undefined /\ Truthy(Prop(fieldNode, "selectionSet"))
        THEN fieldNode ELSE Null

\* mutant of verifyInfoEffect: the legacy list is not looked at
verifyInfoEffectCurrentOnly(inf) == inf

\* the info object as verifyInfo leaves it: the legacy list is copied under
\* the current name
verifyInfoEffect(inf) ==
    IF /\ Truthy(inf)
       /\ ~Truthy(Prop(inf, "fieldNodes"))
       /\ Truthy(Prop(inf, "fieldASTs"))
    THEN [fieldNodes |-> inf.fieldASTs] @@ [p \in DOMAIN inf \ {"fieldNodes"} |-> inf[p]]
    ELSE inf

verifyInfo(inf) ==
    IF ~Truthy(inf) THEN Null
    ELSE IF ~Truthy(Prop(verifyInfoEffect(inf), "fieldNodes")) THEN Null
    ELSE verifyFieldNode(verifyInfoEffect(inf))

\* the options object as parseOptions leaves it
parseOptionsEffect(opt) ==
    IF Truthy(opt) /\ Prop(opt, "withDirectives") = Undefined
    THEN [withDirectives |-> True] @@ opt
    ELSE opt

parseOptions(opt) == IF ~Truthy(opt) THEN [t |-> "object"] ELSE parseOptionsEffect(opt)

----
\* Entry points

\* mutant of fieldsMap: the skip patterns are rooted at the path option
fieldsMapSkipBelowPath(inf, opt) ==
    LET fieldNode == verifyInfo(inf)
        parsed == parseOptions(opt)
        given == IF Truthy(Prop(parsed, "skip")) THEN parsed.skip.v ELSE <<>>
        rooted == IF Truthy(Prop(parsed, "path"))
                  THEN [i \in 1..Len(given) |-> parsed.path.v \o <<".">> \o given[i]]
                  ELSE given
        after == verifyInfoEffect(inf)
    IN  IF ~Truthy(fieldNode) THEN Obj(<<>>)
        ELSE IF skipTree(rooted) = Throw THEN Throw
        ELSE getBranch(
                 traverse(getNodes(fieldNode), Obj(<<>>),
                          [fragments |-> after.fragments,
                           vars |-> Prop(after, "variableValues"),
                           withVars |-> Prop(parsed, "withDirectives")],
                          skipTree(rooted)),
                 Prop(parsed, "path"))

fieldsMap(inf, opt) ==
    LET fieldNode == verifyInfo(inf)
        parsed == parseOptions(opt)
        rules == skipTree(IF Truthy(Prop(parsed, "skip")) THEN parsed.skip.v ELSE <<>>)
        after == verifyInfoEffect(inf)
    IN  IF ~Truthy(fieldNode) THEN Obj(<<>>)
        ELSE IF rules = Throw THEN Throw
        ELSE getBranch(
                 traverse(getNodes(fieldNode), Obj(<<>>),
                          [fragments |-> after.fragments,
                           vars |-> Prop(after, "variableValues"),
                           withVars |-> Prop(parsed, "withDirectives")],
                          rules),
                 Prop(parsed, "path"))

\* mutant of fieldsMapInfo: the call uses up the list of field nodes
fieldsMapInfoConsuming(inf) ==
    IF Truthy(inf) /\ Truthy(Prop(verifyInfoEffect(inf), "fieldNodes"))
    THEN [verifyInfoEffect(inf) EXCEPT !.fieldNodes = Arr(<<>>)]
    ELSE inf

\* what a call of fieldsMap leaves in the caller's info and options objects
fieldsMapInfo(inf) == verifyInfoEffect(inf)

fieldsMapOptions(inf, opt) ==
    IF Truthy(verifyInfo(inf)) THEN parseOptionsEffect(opt) ELSE opt

\* the default value of the options parameter of fieldsList
fieldsListDefault(opt) == IF opt = Undefined THEN [t |-> "object"] ELSE opt

fieldsList(inf, opt) ==
    LET given == fieldsListDefault(opt)
        tree == fieldsMap(inf, given)
        transform == Prop(given, "transform")
        renamed(field) == IF Truthy(transform) /\ Truthy(Lookup(transform, field))
                          THEN Lookup(transform, field).v ELSE field
    IN  IF tree = Throw THEN Throw
        ELSE Arr([i \in 1..Len(tree.e) |-> renamed(Keys(tree)[i])])

toDotNotation(parent, child) ==
    (IF parent # <<>> THEN parent \o <<".">> ELSE <<>>) \o child

One == [t |-> "number", v |-> 1]

\* mutant of projectionKeys: a branch never gets a key of its own
RECURSIVE projectionKeysLeavesOnly(_, _, _, _, _)
projectionKeysLeavesOnly(stack, map, i, transform, keep) ==
    LET tree == stack[1].tree
    IN  IF i > Len(tree.e) THEN [stack |-> stack, map |-> map]
        ELSE LET j == tree.e[i].k
                 dotName == toDotNotation(stack[1].node, j)
             IN  IF Truthy(tree.e[i].v)
                 THEN projectionKeysLeavesOnly(
                          Append(stack, [node |-> dotName, tree |-> tree.e[i].v]),
                          map, i + 1, transform, keep)
                 ELSE projectionKeysLeavesOnly(
                          stack,
                          Assign(map,
                                 IF Truthy(Lookup(transform, dotName))
                                 THEN Lookup(transform, dotName).v ELSE dotName,
                                 One),
                          i + 1, transform, keep)

\* mutant of projectionKeys: the transform table is read by the bare name
RECURSIVE projectionKeysByName(_, _, _, _, _)
projectionKeysByName(stack, map, i, transform, keep) ==
    LET tree == stack[1].tree
    IN  IF i > Len(tree.e) THEN [stack |-> stack, map |-> map]
        ELSE LET j == tree.e[i].k
                 dotName == toDotNotation(stack[1].node, j)
             IN  IF Truthy(tree.e[i].v)
                 THEN projectionKeysByName(
                          Append(stack, [node |-> dotName, tree |-> tree.e[i].v]),
                          IF Truthy(keep) THEN Assign(map, dotName, One) ELSE map,
                          i + 1, transform, keep)
                 ELSE projectionKeysByName(
                          stack,
                          Assign(map,
                                 IF Truthy(Lookup(transform, j))
                                 THEN Lookup(transform, j).v ELSE dotName,
                                 One),
                          i + 1, transform, keep)

\* the for loop of fieldsProjection over the keys of stack[0].tree, from key i
RECURSIVE projectionKeys(_, _, _, _, _)
projectionKeys(stack, map, i, transform, keep) ==
    LET tree == stack[1].tree
    IN  IF i > Len(tree.e) THEN [stack |-> stack, map |-> map]
        ELSE LET j == tree.e[i].k
                 dotName == toDotNotation(stack[1].node, j)
             IN  IF Truthy(tree.e[i].v)
                 THEN projectionKeys(
                          Append(stack, [node |-> dotName, tree |-> tree.e[i].v]),
                          IF Truthy(keep) THEN Assign(map, dotName, One) ELSE map,
                          i + 1, transform, keep)
                 ELSE projectionKeys(
                          stack,
                          Assign(map,
                                 IF Truthy(Lookup(transform, dotName))
                                 THEN Lookup(transform, dotName).v ELSE dotName,
                                 One),
                          i + 1, transform, keep)

\* the while loop of fieldsProjection
RECURSIVE projectionLoop(_, _, _, _)
projectionLoop(stack, map, transform, keep) ==
    IF stack = <<>> THEN map
    ELSE LET step == projectionKeys(stack, map, 1, transform, keep)
         IN  projectionLoop(Tail(step.stack), step.map, transform, keep)

fieldsProjection(inf, opt) ==
    LET tree == fieldsMap(inf, opt)
        given == IF Truthy(opt) THEN opt ELSE [t |-> "object"]
        transform == IF Truthy(Prop(given, "transform")) THEN given.transform
                     ELSE Obj(<<>>)
    IN  IF tree = Throw THEN Throw
        ELSE projectionLoop(<<[node |-> <<>>, tree |-> tree]>>, Obj(<<>>),
                            transform, Prop(given, "keepParentField"))

----
\* Operations: a caller holds an info object and an options value and calls
\* an entry point with them; call records the arguments as they were passed

NoCall == [fn |-> "none"]

\* no call is under way
Idle == [pc |-> "idle"]

CallFieldsMap ==
    /\ call' = [fn |-> "fieldsMap", info |-> info, options |-> options]
    /\ ret' = fieldsMap(info, options)
    /\ info' = fieldsMapInfo(info)
    /\ options' = fieldsMapOptions(info, options)
    /\ run' = run

CallFieldsList ==
    /\ call' = [fn |-> "fieldsList", info |-> info, options |-> options]
    /\ ret' = fieldsList(info, options)
    /\ info' = fieldsMapInfo(info)
    /\ options' = fieldsMapOptions(info, options)
    /\ run' = run

CallFieldsProjection ==
    /\ call' = [fn |-> "fieldsProjection", info |-> info, options |-> options]
    /\ ret' = fieldsProjection(info, options)
    /\ info' = fieldsMapInfo(info)
    /\ options' = fieldsMapOptions(info, options)
    /\ run' = run

Next == CallFieldsMap \/ CallFieldsList \/ CallFieldsProjection

----
\* Inputs: query documents as graphql-js hands them to a resolver

Str(chars) == [t |-> "str", v |-> chars]

SelectionSet(selections) ==
    [t |-> "object", kind |-> "SelectionSet", selections |-> Arr(selections)]

WithSelections(node, selections) ==
    IF selections = <<>> THEN node
    ELSE [selectionSet |-> SelectionSet(selections)] @@ node

Field(name, directives, selections) ==
    WithSelections([t |-> "object", kind |-> "Field", name |-> [value |-> name],
                    directives |-> Arr(directives)], selections)

InlineFragment(directives, selections) ==
    [t |-> "object", kind |-> "InlineFragment", directives |-> Arr(directives),
     selectionSet |-> SelectionSet(selections)]

FragmentSpread(name, directives) ==
    [t |-> "object", kind |-> "FragmentSpread", name |-> [value |-> name],
     directives |-> Arr(directives)]

FragmentDefinition(name, selections) ==
    [t |-> "object", kind |-> "FragmentDefinition", name |-> [value |-> name],
     selectionSet |-> SelectionSet(selections)]

ResolveInfo(fieldName, fieldNodes, fragments, variableValues) ==
    [t |-> "object", fieldName |-> fieldName, fieldNodes |-> Arr(fieldNodes),
     fragments |-> fragments, variableValues |-> variableValues]

\* the sequences over S of length at most n
SeqsUpTo(S, n) == UNION {[1..k -> S] : k \in 0..n}

\* longest selection list written in a query
MaxSel == 2

\* deepest nesting of the written selection list below the resolver's field
MaxNest == 1

FieldNames == {<<"a">>, <<"b">>}

FragmentNames == {<<"F">>, <<"G">>}

ResolverName == <<"q">>

Leaves == {Field(n, <<>>, <<>>) : n \in FieldNames}

Branches == {Field(n, <<>>, <<l>>) : n \in FieldNames, l \in Leaves}

Inlines ==
    {InlineFragment(<<>>, <<x>>) :
        x \in Leaves \cup {Field(<<"a">>, <<>>, <<Field(<<"b">>, <<>>, <<>>)>>)}}

Spreads == {FragmentSpread(f, <<>>) : f \in FragmentNames}

Selections == SeqsUpTo(Leaves \cup Branches \cup Inlines \cup Spreads, MaxSel)

\* fragment F spreads fragment G; the fragments select a and b both as a leaf
\* and with a sub-selection
FragmentTables ==
    {Obj(<<[k |-> <<"F">>, v |-> FragmentDefinition(<<"F">>, f)],
           [k |-> <<"G">>, v |-> FragmentDefinition(<<"G">>, g)]>>) :
        f \in {<<Field(<<"b">>, <<>>, <<Field(<<"a">>, <<>>, <<>>)>>),
                 FragmentSpread(<<"G">>, <<>>)>>},
        g \in {<<Field(<<"a">>, <<>>, <<>>), Field(<<"b">>, <<>>, <<>>)>>,
               <<Field(<<"a">>, <<>>, <<Field(<<"b">>, <<>>, <<>>)>>)>>}}

\* the selection list nested below n levels of field a
RECURSIVE Nest(_, _)
Nest(selections, n) ==
    IF n = 0 THEN selections
    ELSE <<Field(<<"a">>, <<>>, Nest(selections, n - 1))>>

Documents ==
    {ResolveInfo(ResolverName,
                 <<Field(ResolverName, <<>>, Nest(sel, n))>>, frags, Obj(<<>>)) :
        sel \in Selections \ {<<>>}, n \in 0..MaxNest, frags \in FragmentTables}

Options(fields) == [t |-> "object"] @@ fields

PathOptions ==
    {Options(<<>>)} \cup
    {Options([path |-> Str(p)]) :
        p \in {<<"a">>, <<"a", ".", "b">>}}

Init ==
    /\ info \in Documents
    /\ options \in PathOptions
    /\ call = NoCall
    /\ ret = Undefined
    /\ run = Idle

Spec == Init /\ [][Next]_vars

----
\* Inputs: documents whose nodes carry @skip / @include directives

Argument(value) ==
    [kind |-> "Argument", name |-> [value |-> "if"], value |-> value]

Directive(name, arguments) ==
    [kind |-> "Directive", name |-> [value |-> name], arguments |-> Arr(arguments)]

BooleanValue(b) ==
    [kind |-> "BooleanValue", value |-> IF b THEN True ELSE False]

Variable(name) == [kind |-> "Variable", name |-> [value |-> name]]

\* longest directive list on one node
MaxDirectives == 2

ConditionNames == {"skip", "include"}

Conditions ==
    {Directive(n, <<Argument(v)>>) :
        n \in ConditionNames,
        v \in {BooleanValue(TRUE), BooleanValue(FALSE), Variable("v")}}

DirectiveLists == SeqsUpTo(Conditions, MaxDirectives)

LeafA == Field(<<"a">>, <<>>, <<>>)

LeafB == Field(<<"b">>, <<>>, <<>>)

\* the directive list on a leaf field, on a field with a sub-selection, on a
\* nested field, on an inline fragment, on a fragment spread and on a spread
\* inside an inline fragment
DirectedSelections(dl) ==
    {<<Field(<<"a">>, dl, <<>>), LeafB>>,
     <<Field(<<"a">>, dl, <<LeafB>>), LeafB>>,
     <<Field(<<"a">>, <<>>, <<Field(<<"b">>, dl, <<LeafA>>), LeafA>>)>>,
     <<InlineFragment(dl, <<LeafA, Field(<<"b">>, <<>>, <<LeafA>>)>>), LeafB>>,
     <<FragmentSpread(<<"F">>, dl), LeafB>>,
     <<Field(<<"b">>, <<>>,
             <<InlineFragment(<<>>, <<FragmentSpread(<<"F">>, dl)>>), LeafB>>)>>}

DirectedFragments ==
    Obj(<<[k |-> <<"F">>,
           v |-> FragmentDefinition(<<"F">>,
                     <<Field(<<"a">>, <<>>, <<LeafB>>)>>)]>>)

\* the variable bindings of the operation: v bound to true, to false, not
\* bound, and no bindings table at all
Bindings ==
    {Obj(<<[k |-> "v", v |-> True]>>), Obj(<<[k |-> "v", v |-> False]>>),
     Obj(<<>>), Undefined}

DirectedDocuments ==
    {ResolveInfo(ResolverName, <<Field(ResolverName, <<>>, sel)>>,
                 DirectedFragments, b) :
        sel \in UNION {DirectedSelections(dl) : dl \in DirectiveLists},
        b \in Bindings}

\* options omitted, options without withDirectives, withDirectives given
DirectiveOptions ==
    {Undefined, Options(<<>>), Options([withDirectives |-> True]),
     Options([withDirectives |-> False])}

InitDirectives ==
    /\ info \in DirectedDocuments
    /\ options \in DirectiveOptions
    /\ call = NoCall
    /\ ret = Undefined
    /\ run = Idle

SpecDirectives == InitDirectives /\ [][Next]_vars

----
\* Inputs: directives the evaluator lets pass

\* a directive that is not a condition; skip and include without or with an
\* unusable argument list; arguments whose value is no boolean and no variable
LenientDirectives ==
    {Directive("live", <<Argument(BooleanValue(FALSE))>>),
     [kind |-> "Directive", name |-> [value |-> "live"]],
     [kind |-> "Directive", name |-> [value |-> "skip"]],
     [kind |-> "Directive", name |-> [value |-> "skip"], arguments |-> Null],
     [kind |-> "Directive", name |-> [value |-> "include"], arguments |-> Arr(<<>>)],
     [kind |-> "Directive", name |-> [value |-> "include"], arguments |-> True],
     Directive("skip", <<Argument([kind |-> "IntValue", value |-> Str(<<"1">>)])>>),
     Directive("include", <<Argument([kind |-> "NullValue"])>>)}

LenientLists ==
    {<<d>> : d \in LenientDirectives} \cup
    {<<d, e>> : d \in LenientDirectives, e \in LenientDirectives}

LenientDocuments ==
    {ResolveInfo(ResolverName, <<Field(ResolverName, <<>>, sel)>>,
                 DirectedFragments, b) :
        sel \in UNION {DirectedSelections(dl) : dl \in LenientLists},
        b \in {Obj(<<[k |-> "v", v |-> False]>>), Undefined}}

InitLenient ==
    /\ info \in LenientDocuments
    /\ options \in DirectiveOptions
    /\ call = NoCall
    /\ ret = Undefined
    /\ run = Idle

SpecLenient == InitLenient /\ [][Next]_vars

----
\* Inputs: every combination of path, skip, withDirectives and transform

ViewDocuments ==
    {ResolveInfo(ResolverName, <<Field(ResolverName, <<>>, sel)>>,
                 DirectedFragments, b) :
        sel \in UNION {DirectedSelections(dl) :
                          dl \in {<<>>,
                                  <<Directive("skip", <<Argument(BooleanValue(TRUE))>>)>>,
                                  <<Directive("include", <<Argument(Variable("v"))>>)>>}},
        b \in {Obj(<<[k |-> "v", v |-> True]>>), Obj(<<[k |-> "v", v |-> False]>>)}}

\* the records over every subset of the option names, each option taking a
\* value of its set
OptionRecords(values) ==
    UNION {[names -> UNION {values[n] : n \in names}] : names \in SUBSET DOMAIN values}

ViewOptionValues ==
    [path |-> {Str(<<"a">>), Str(<<"b">>)},
     skip |-> {Arr(<<<<"b">>>>), Arr(<<<<"a", ".", "b">>>>), Arr(<<<<"*">>, <<"b", ".", "a">>>>)},
     withDirectives |-> {True, False},
     transform |-> {Obj(<<[k |-> <<"a">>, v |-> Str(<<"x">>)]>>),
                    Obj(<<[k |-> <<"b">>, v |-> Str(<<"y">>)],
                          [k |-> <<"a", ".", "b">>, v |-> Str(<<"z">>)]>>)}]

ViewOptions ==
    {Undefined} \cup
    {Options(o) : o \in {r \in OptionRecords(ViewOptionValues) :
                            \A n \in DOMAIN r : r[n] \in ViewOptionValues[n]}}

InitViews ==
    /\ info \in ViewDocuments
    /\ options \in ViewOptions
    /\ call = NoCall
    /\ ret = Undefined
    /\ run = Idle

SpecViews == InitViews /\ [][Next]_vars

----
\* Inputs: info values that are absent or malformed

OtherName == <<"p">>

\* no node, a node without a name, a node of another field, the resolver's
\* node without a selection set, that node after another field's node, a
\* well-formed list, and lists with two nodes of the resolver's field
FieldNodeLists ==
    {<<>>,
     <<[t |-> "object", a |-> 1]>>,
     <<Field(OtherName, <<>>, <<LeafA>>)>>,
     <<Field(ResolverName, <<>>, <<>>)>>,
     <<Field(OtherName, <<>>, <<LeafA>>), Field(ResolverName, <<>>, <<>>)>>,
     <<Field(ResolverName, <<>>, <<LeafA, Field(<<"b">>, <<>>, <<LeafA>>)>>)>>,
     <<Field(ResolverName, <<>>, <<LeafA>>), Field(ResolverName, <<>>, <<LeafB>>)>>,
     <<Field(ResolverName, <<>>, <<>>), Field(ResolverName, <<>>, <<LeafA>>)>>}

\* the property of an object, left out when its value is undefined
Optional(name, value) ==
    IF value = Undefined THEN <<>> ELSE [n \in {name} |-> value]

\* the info objects with and without fieldName, fieldNodes and fieldASTs,
\* next to the falsy values passed as info
InfoValues ==
    {Null, Undefined, False, EmptyString} \cup
    {(IF named THEN [fieldName |-> ResolverName] ELSE <<>>)
     @@ Optional("fieldNodes", nodes) @@ Optional("fieldASTs", asts)
     @@ [t |-> "object", fragments |-> Obj(<<>>), variableValues |-> Obj(<<>>)] :
        named \in BOOLEAN,
        nodes \in {Undefined, Null, False} \cup {Arr(l) : l \in FieldNodeLists},
        asts \in {Undefined, Null} \cup {Arr(l) : l \in FieldNodeLists}}

InputOptions ==
    {Undefined, Options(<<>>), Options([path |-> Str(<<"a">>)]),
     Options([withDirectives |-> False, keepParentField |-> True]),
     Options([skip |-> Arr(<<<<"a">>>>),
              transform |-> Obj(<<[k |-> <<"a">>, v |-> Str(<<"x">>)]>>)])}

InitInput ==
    /\ info \in InfoValues
    /\ options \in InputOptions
    /\ call = NoCall
    /\ ret = Undefined
    /\ run = Idle

SpecInput == InitInput /\ [][Next]_vars

----
\* Inputs: skip lists of literal and wildcard patterns

\* longest skip list
MaxSkip == 2

Leaf(name) == Field(name, <<>>, <<>>)

\* a { b { c } c ab } b { a } ab ba c, and a document that reaches a and its
\* children through an inline fragment and a fragment spread
SkipSelections ==
    {<<Field(<<"a">>, <<>>,
             <<Field(<<"b">>, <<>>, <<Leaf(<<"c">>)>>), Leaf(<<"c">>),
               Leaf(<<"a", "b">>)>>),
       Field(<<"b">>, <<>>, <<Leaf(<<"a">>)>>),
       Leaf(<<"a", "b">>), Leaf(<<"b", "a">>), Leaf(<<"c">>)>>,
     <<Field(<<"a">>, <<>>,
             <<Leaf(<<"c">>), InlineFragment(<<>>, <<Leaf(<<"b", "a">>)>>)>>),
       FragmentSpread(<<"F">>, <<>>),
       Leaf(<<"b">>)>>}

SkipDocuments ==
    {ResolveInfo(ResolverName, <<Field(ResolverName, <<>>, sel)>>,
                 DirectedFragments, Obj(<<>>)) : sel \in SkipSelections}

\* literal dot paths, the last one naming no field of the documents
LiteralPatterns ==
    {<<"a">>, <<"b">>, <<"a", ".", "b">>, <<"a", ".", "c">>,
     <<"a", ".", "b", ".", "c">>, <<"x">>}

\* patterns with a bare * segment and with * inside a name
WildcardPatterns ==
    {<<"*">>, <<"a", ".", "*">>, <<"*", ".", "b">>,
     <<"a", "*">>, <<"*", "b">>, <<"a", "*", "b">>, <<"a", ".", "*", "b">>}

Patterns == LiteralPatterns \cup WildcardPatterns

SkipLists == SeqsUpTo(Patterns, MaxSkip)

SkipOptions ==
    {Options(Optional("path", path) @@ [skip |-> Arr(list)]) :
        list \in SkipLists, path \in {Undefined, Str(<<"a">>)}}

InitSkip ==
    /\ info \in SkipDocuments
    /\ options \in SkipOptions
    /\ call = NoCall
    /\ ret = Undefined
    /\ run = Idle

SpecSkip == InitSkip /\ [][Next]_vars

----
\* Inputs: path, skip, transform and keepParentField together

\* skip lists whose patterns name different fields: a pattern under the
\* path a, a name that only the transform table produces, a pattern that
\* leaves b without children, a wildcard, and two patterns
ProjectionSkips ==
    {Undefined,
     Arr(<<<<"a", ".", "b">>>>),
     Arr(<<<<"x">>>>),
     Arr(<<<<"b", ".", "a">>>>),
     Arr(<<<<"a", ".", "*", "b">>>>),
     Arr(<<<<"a", ".", "b">>, <<"b", ".", "a">>>>)}

\* a table keyed by bare names and a table keyed by dot paths, one of them
\* the path of a branch
ProjectionTransforms ==
    {Undefined,
     Obj(<<[k |-> <<"a">>, v |-> Str(<<"x">>)],
           [k |-> <<"b">>, v |-> Str(<<"a">>)],
           [k |-> <<"c">>, v |-> Str(<<"z">>)]>>),
     Obj(<<[k |-> <<"a", ".", "c">>, v |-> Str(<<"y">>)],
           [k |-> <<"a", ".", "b">>, v |-> Str(<<"w">>)],
           [k |-> <<"b", ".", "c">>, v |-> Str(<<"v">>)],
           [k |-> <<"b">>, v |-> Str(<<"z">>)]>>)}

ProjectionOptions ==
    {Undefined} \cup
    {Options(Optional("path", path) @@ Optional("skip", skip)
             @@ Optional("transform", transform)
             @@ Optional("keepParentField", keep)) :
        path \in {Undefined, Str(<<"a">>), Str(<<"b">>)},
        skip \in ProjectionSkips,
        transform \in ProjectionTransforms,
        keep \in {Undefined, True, False}}

InitProjection ==
    /\ info \in SkipDocuments
    /\ options \in ProjectionOptions
    /\ call = NoCall
    /\ ret = Undefined
    /\ run = Idle

SpecProjection == InitProjection /\ [][Next]_vars

----
\* Inputs: spreads of a fragment the fragment table does not hold, and
\* fields named like a fragment

UndefinedName == <<"H">>

FragmentSelections ==
    SeqsUpTo({LeafA, LeafB, Field(<<"a">>, <<>>, <<LeafB>>),
              FragmentSpread(UndefinedName, <<>>),
              FragmentSpread(<<"F">>, <<>>),
              InlineFragment(<<>>, <<FragmentSpread(UndefinedName, <<>>)>>),
              Field(<<"a">>, <<>>, <<FragmentSpread(UndefinedName, <<>>), LeafA>>),
              Field(<<"F">>, <<>>, <<>>),
              Field(<<"F">>, <<>>, <<LeafA>>)},
             MaxSel) \ {<<>>}

FragmentDocuments ==
    {ResolveInfo(ResolverName, <<Field(ResolverName, <<>>, sel)>>,
                 frags, Obj(<<>>)) :
        sel \in FragmentSelections, frags \in {Obj(<<>>), DirectedFragments}}

InitFragments ==
    /\ info \in FragmentDocuments
    /\ options \in PathOptions
    /\ call = NoCall
    /\ ret = Undefined
    /\ run = Idle

SpecFragments == InitFragments /\ [][Next]_vars

----
\* Inputs: objects that are passed to several calls

\* the info object of graphql versions that name the list fieldASTs
LegacyInfo(inf) ==
    [fieldASTs |-> inf.fieldNodes] @@
    [p \in DOMAIN inf \ {"fieldNodes"} |-> inf[p]]

\* documents with at most one condition on a node, in the current and in
\* the legacy shape
SharedDocuments ==
    LET current ==
            {ResolveInfo(ResolverName, <<Field(ResolverName, <<>>, sel)>>,
                         DirectedFragments, b) :
                sel \in UNION {DirectedSelections(dl) :
                                  dl \in {<<>>} \cup {<<c>> : c \in Conditions}},
                b \in {Obj(<<[k |-> "v", v |-> True]>>),
                       Obj(<<[k |-> "v", v |-> False]>>)}}
    IN  current \cup {LegacyInfo(inf) : inf \in current}

InitCalls ==
    /\ info \in SharedDocuments
    /\ options \in DirectiveOptions
    /\ call = NoCall
    /\ ret = Undefined
    /\ run = Idle

SpecCalls == InitCalls /\ [][Next]_vars

----
\* Inputs: skip lists whose patterns meet in one exclusion scope

\* a literal and its extension, a bare wildcard first, last and in the
\* middle of a pattern, and wildcards in a name with and without children
ScopePatterns ==
    {<<"a">>, <<"a", ".", "b">>, <<"*">>, <<"a", "*">>,
     <<"a", "*", ".", "b">>, <<"*", ".", "c">>, <<"a", ".", "*", ".", "c">>}

ScopeOptions ==
    {Options([skip |-> Arr(list)]) : list \in SeqsUpTo(ScopePatterns, MaxSkip)}

InitScopes ==
    /\ info \in SkipDocuments
    /\ options \in ScopeOptions
    /\ call = NoCall
    /\ ret = Undefined
    /\ run = Idle

SpecScopes == InitScopes /\ [][Next]_vars

----
\* Inputs: selections written with an alias

\* alias: name, with the selections of the field
Aliased(alias, field) == [alias |-> [value |-> alias]] @@ field

\* a and b plain and aliased; one alias is the name of another field
AliasSelections ==
    SeqsUpTo({LeafA, LeafB, Field(<<"a">>, <<>>, <<LeafB>>),
              Aliased(<<"x">>, LeafA),
              Aliased(<<"x">>, Field(<<"a">>, <<>>, <<LeafA>>)),
              Aliased(<<"b">>, Field(<<"a">>, <<>>, <<Aliased(<<"y">>, LeafB)>>))},
             MaxSel) \ {<<>>}

AliasDocuments ==
    {ResolveInfo(ResolverName, <<Field(ResolverName, <<>>, sel)>>,
                 Obj(<<>>), Obj(<<>>)) : sel \in AliasSelections}

InitAlias ==
    /\ info \in AliasDocuments
    /\ options \in PathOptions
    /\ call = NoCall
    /\ ret = Undefined
    /\ run = Idle

SpecAlias == InitAlias /\ [][Next]_vars

----
\* A call followed statement by statement: the recursion of traverse as a
\* stack of frames, the loop of fieldsProjection as its queue

\* the error the engine raises when its call stack is full
RangeError == [t |-> "throw", error |-> "RangeError"]

\* frames of traverse the call stack of the engine holds
MaxDepth == 6

Done == [pc |-> "done"]

\* the object a frame of traverse holds as root: frames share the tree, a
\* frame refers to its root by the key path from the top
RECURSIVE rootAt(_, _)
rootAt(tree, at) ==
    IF at = <<>> THEN tree ELSE rootAt(Lookup(tree, Head(at)), Tail(at))

\* root[name] = val for the root at a key path
RECURSIVE assignAt(_, _, _, _)
assignAt(tree, at, name, val) ==
    IF at = <<>> THEN Assign(tree, name, val)
    ELSE Assign(tree, Head(at),
                assignAt(Lookup(tree, Head(at)), Tail(at), name, val))

\* a call of traverse(nodes, root, opts, skip): a new frame at its first
\* node, or no frame when the call stack is full
callTraverse(r, nodes, at, skip) ==
    IF Len(r.frames) = MaxDepth THEN [r EXCEPT !.pc = "overflow"]
    ELSE [r EXCEPT !.frames =
              Append(@, [nodes |-> nodes, i |-> 1, at |-> at, skip |-> skip])]

\* one iteration of the loop of traverse in the newest frame
traverseIteration(r) ==
    LET d == Len(r.frames)
        top == r.frames[d]
        node == top.nodes[top.i]
        on == [r EXCEPT !.frames[d].i = top.i + 1]
    IN  IF /\ Truthy(r.opts.withVars)
           /\ ~verifyDirectives(Prop(node, "directives"), r.opts.vars)
        THEN on
        ELSE IF node.kind = "InlineFragment"
        THEN IF Len(getNodes(node)) > 0
             THEN callTraverse(on, getNodes(node), top.at, top.skip)
             ELSE on
        ELSE LET name == node.name.value
             IN  IF Truthy(Lookup(r.opts.fragments, name))
                 THEN callTraverse(on, getNodes(Lookup(r.opts.fragments, name)),
                                   top.at, top.skip)
                 ELSE LET nodes == getNodes(node)
                          nodeSkip == verifySkip(name, top.skip)
                          assigned ==
                              [on EXCEPT !.tree =
                                   assignAt(r.tree, top.at, name,
                                            rootEntry(rootAt(r.tree, top.at),
                                                      name, nodes))]
                      IN  IF nodeSkip = True THEN on
                          ELSE IF Len(nodes) > 0
                          THEN callTraverse(assigned, nodes,
                                            Append(top.at, name), nodeSkip)
                          ELSE assigned

\* what the entry point does with the value fieldsMap returned: fieldsMap
\* and fieldsList return, fieldsProjection pushes it on its queue
afterFieldsMap(r, tree) ==
    LET transform == Prop(r.given, "transform")
        renamed(field) == IF Truthy(transform) /\ Truthy(Lookup(transform, field))
                          THEN Lookup(transform, field).v ELSE field
    IN  CASE r.fn = "fieldsMap" -> [ret |-> tree, run |-> Done]
          [] r.fn = "fieldsList" ->
                 [ret |-> Arr([i \in 1..Len(tree.e) |-> renamed(Keys(tree)[i])]),
                  run |-> Done]
          [] r.fn = "fieldsProjection" ->
                 [ret |-> Undefined,
                  run |-> [pc |-> "project",
                           stack |-> <<[node |-> <<>>, tree |-> tree]>>,
                           map |-> Obj(<<>>),
                           transform |-> IF Truthy(transform) THEN transform
                                         ELSE Obj(<<>>),
                           keep |-> Prop(r.given, "keepParentField"),
                           pushed |-> <<<<>>>>,
                           shifted |-> <<>>]]

\* an entry point is called: the input is verified, the options are parsed,
\* the skip rules are built and traverse is called for the selections of the
\* resolver's node
EnterCall(fn) ==
    LET given == IF fn = "fieldsList" THEN fieldsListDefault(options) ELSE options
        fieldNode == verifyInfo(info)
        parsed == parseOptions(given)
        rules == skipTree(IF Truthy(Prop(parsed, "skip")) THEN parsed.skip.v
                          ELSE <<>>)
        after == verifyInfoEffect(info)
        r == [pc |-> "traverse", fn |-> fn,
              given |-> IF Truthy(given) THEN given ELSE [t |-> "object"],
              path |-> Prop(parsed, "path"),
              tree |-> Obj(<<>>),
              frames |-> <<>>]
        out == afterFieldsMap(r, Obj(<<>>))
    IN  /\ run.pc = "idle"
        /\ call' = [fn |-> fn, info |-> info, options |-> options]
        /\ info' = fieldsMapInfo(info)
        /\ options' = fieldsMapOptions(info, options)
        /\ IF ~Truthy(fieldNode) THEN ret' = out.ret /\ run' = out.run
           ELSE IF rules = Throw THEN ret' = Throw /\ run' = Done
           ELSE /\ ret' = ret
                /\ run' = callTraverse(
                              [opts |-> [fragments |-> after.fragments,
                                         vars |-> Prop(after, "variableValues"),
                                         withVars |-> Prop(parsed, "withDirectives")]]
                              @@ r,
                              getNodes(fieldNode), <<>>, rules)

\* the newest frame of traverse takes its next node, or returns its root
\* when it has none left; the return of the oldest frame is the return of
\* fieldsMap, through getBranch
TraverseStep ==
    /\ run.pc = "traverse"
    /\ LET d == Len(run.frames)
           top == run.frames[d]
           next == traverseIteration(run)
           out == afterFieldsMap(run, getBranch(run.tree, run.path))
       IN  IF top.i <= Len(top.nodes)
           THEN IF next.pc = "overflow"
                THEN ret' = RangeError /\ run' = Done
                ELSE ret' = ret /\ run' = next
           ELSE IF d > 1
           THEN ret' = ret /\ run' = [run EXCEPT !.frames = SubSeq(@, 1, d - 1)]
           ELSE ret' = out.ret /\ run' = out.run
    /\ UNCHANGED <<info, options, call>>

\* one iteration of the while loop of fieldsProjection: the keys of the
\* tree at the head of the queue, then stack.shift(); pushed and shifted
\* record the dot paths that entered and left the queue
ProjectStep ==
    /\ run.pc = "project"
    /\ LET step == projectionKeys(run.stack, run.map, 1, run.transform, run.keep)
           pushed == run.pushed \o
                     [i \in 1..(Len(step.stack) - Len(run.stack)) |->
                         step.stack[Len(run.stack) + i].node]
           shifted == Append(run.shifted, run.stack[1].node)
       IN  IF Tail(step.stack) = <<>>
           THEN /\ ret' = step.map
                /\ run' = [pc |-> "done", pushed |-> pushed, shifted |-> shifted]
           ELSE /\ ret' = ret
                /\ run' = [run EXCEPT !.stack = Tail(step.stack),
                                      !.map = step.map,
                                      !.pushed = pushed,
                                      !.shifted = shifted]
    /\ UNCHANGED <<info, options, call>>

NextSteps ==
    \/ \E fn \in {"fieldsMap", "fieldsList", "fieldsProjection"} : EnterCall(fn)
    \/ TraverseStep
    \/ ProjectStep

\* fragments that spread fragments: F spreads G; and a fragment F on a type
\* with a field named F
StepFragments ==
    {Obj(<<[k |-> <<"F">>,
            v |-> FragmentDefinition(<<"F">>,
                      <<LeafA, FragmentSpread(<<"G">>, <<>>)>>)],
           [k |-> <<"G">>,
            v |-> FragmentDefinition(<<"G">>,
                      <<Field(<<"b">>, <<>>, <<LeafA>>)>>)]>>),
     Obj(<<[k |-> <<"F">>,
            v |-> FragmentDefinition(<<"F">>,
                      <<LeafA, Field(<<"F">>, <<>>, <<>>)>>)]>>)}

StepSelections ==
    SeqsUpTo({LeafA, Field(<<"a">>, <<>>, <<LeafB>>),
              FragmentSpread(<<"F">>, <<>>),
              Field(<<"b">>, <<>>, <<FragmentSpread(<<"F">>, <<>>)>>),
              InlineFragment(<<>>, <<Field(<<"a">>, <<>>, <<LeafA>>)>>)},
             MaxSel) \ {<<>>}

StepDocuments ==
    {ResolveInfo(ResolverName, <<Field(ResolverName, <<>>, sel)>>, f, Obj(<<>>)) :
        sel \in StepSelections, f \in StepFragments}

StepOptions ==
    {Undefined, Options([path |-> Str(<<"b">>)]),
     Options([keepParentField |-> True]),
     Options([skip |-> Arr(<<<<"b", ".", "a">>>>)])}

InitSteps ==
    /\ info \in StepDocuments
    /\ options \in StepOptions
    /\ call = NoCall
    /\ ret = Undefined
    /\ run = Idle

\* the engine runs a call to its end: a statement that can be taken is taken
SpecSteps == InitSteps /\ [][NextSteps]_vars /\ WF_vars(NextSteps)

----
\* Reference reading of a selection list, written without the tree builder

\* the selections of the resolver's own field node
RootSelections(inf) == getNodes(inf.fieldNodes.v[1])

\* the same info with another selection list under the resolver's field
WithRootSelections(inf, selections) ==
    [inf EXCEPT !.fieldNodes =
         Arr(<<Field(inf.fieldName, <<>>, selections)>>)]

\* the selection list with every inline fragment and every spread of a
\* defined fragment replaced, at every depth, by the selections it stands for
RECURSIVE InPlace(_, _)
InPlaceNode(node, fragments) ==
    CASE node.kind = "InlineFragment" -> InPlace(getNodes(node), fragments)
      [] node.kind = "FragmentSpread" ->
             InPlace(getNodes(Lookup(fragments, node.name.value)), fragments)
      [] OTHER -> <<WithSelections(
                      [p \in DOMAIN node \ {"selectionSet"} |-> node[p]],
                      InPlace(getNodes(node), fragments))>>

InPlace(nodes, fragments) ==
    IF nodes = <<>> THEN <<>>
    ELSE InPlaceNode(Head(nodes), fragments) \o InPlace(Tail(nodes), fragments)

\* the names of a list of field occurrences, each once, in order of first
\* occurrence
RECURSIVE FirstOccurrences(_, _)
FirstOccurrences(occs, seen) ==
    IF occs = <<>> THEN <<>>
    ELSE IF Head(occs).name.value \in seen THEN FirstOccurrences(Tail(occs), seen)
    ELSE <<Head(occs).name.value>>
         \o FirstOccurrences(Tail(occs), seen \cup {Head(occs).name.value})

\* the sub-selections of all occurrences of one name, in order
RECURSIVE ChildrenOf(_, _)
ChildrenOf(occs, name) ==
    IF occs = <<>> THEN <<>>
    ELSE (IF Head(occs).name.value = name THEN getNodes(Head(occs)) ELSE <<>>)
         \o ChildrenOf(Tail(occs), name)

\* one entry per name; a name is a leaf when no occurrence has a
\* sub-selection, else the tree of the union of the sub-selections
RECURSIVE MergedTree(_)
MergedTree(occs) ==
    LET names == FirstOccurrences(occs, {})
    IN  Obj([i \in 1..Len(names) |->
                [k |-> names[i],
                 v |-> IF ChildrenOf(occs, names[i]) = <<>> THEN False
                       ELSE MergedTree(ChildrenOf(occs, names[i]))]])

\* the occurrences found under a path of names
RECURSIVE OccurrencesAt(_, _)
OccurrencesAt(occs, namePath) ==
    IF Len(namePath) = 1
    THEN SelectSeq(occs, LAMBDA o : o.name.value = namePath[1])
    ELSE OccurrencesAt(ChildrenOf(occs, Head(namePath)), Tail(namePath))

\* the key paths of all entries of a field tree
RECURSIVE TreePaths(_)
TreePaths(tree) ==
    IF ~IsObj(tree) THEN {}
    ELSE UNION {{<<tree.e[i].k>>} \cup
                {<<tree.e[i].k>> \o p : p \in TreePaths(tree.e[i].v)} :
                    i \in 1..Len(tree.e)}

\* the value stored under a key path
RECURSIVE TreeAt(_, _)
TreeAt(tree, namePath) ==
    IF namePath = <<>> THEN tree
    ELSE TreeAt(Lookup(tree, Head(namePath)), Tail(namePath))

HasKind(nodes, kind) == \E i \in 1..Len(nodes) : nodes[i].kind = kind

NoPath(opt) == ~Truthy(opt) \/ ~Truthy(Prop(opt, "path"))

\* the entry point named by a call record, applied to other arguments
Apply(fn, inf, opt) ==
    CASE fn = "fieldsMap" -> fieldsMap(inf, opt)
      [] fn = "fieldsList" -> fieldsList(inf, opt)
      [] fn = "fieldsProjection" -> fieldsProjection(inf, opt)

\* the value a condition tests: the literal, or the binding of the variable
ConditionValue(directive, bindings) ==
    LET value == directive.arguments.v[1].value
    IN  IF value.kind = "BooleanValue" THEN value.value
        ELSE Lookup(bindings, value.name.value)

\* @skip passes on false, @include passes on true
ConditionPasses(directive, bindings) ==
    IF directive.name.value = "skip"
    THEN ConditionValue(directive, bindings) = False
    ELSE ConditionValue(directive, bindings) = True

Survives(node, bindings) ==
    \A i \in 1..Len(node.directives.v) :
        ConditionPasses(node.directives.v[i], bindings)

\* the selection list without the nodes that fail a condition, the nodes
\* left carrying no directive
RECURSIVE Surviving(_, _)
Surviving(nodes, bindings) ==
    IF nodes = <<>> THEN <<>>
    ELSE LET node == Head(nodes)
             kept == [directives |-> Arr(<<>>)] @@
                     WithSelections(
                         [p \in DOMAIN node \ {"selectionSet"} |-> node[p]],
                         Surviving(getNodes(node), bindings))
         IN  (IF Survives(node, bindings) THEN <<kept>> ELSE <<>>)
             \o Surviving(Tail(nodes), bindings)

\* the selection list with every directive removed
RECURSIVE Undirected(_)
Undirected(nodes) ==
    IF nodes = <<>> THEN <<>>
    ELSE LET node == Head(nodes)
         IN  <<[directives |-> Arr(<<>>)] @@
               WithSelections(
                   [p \in DOMAIN node \ {"selectionSet"} |-> node[p]],
                   Undirected(getNodes(node)))>>
             \o Undirected(Tail(nodes))

\* the fragment table with f applied to the selections of every fragment
OverFragments(fragments, f(_)) ==
    Obj([i \in 1..Len(fragments.e) |->
            [k |-> fragments.e[i].k,
             v |-> FragmentDefinition(fragments.e[i].k,
                                      f(getNodes(fragments.e[i].v)))]])

\* the document with f applied to every selection list
OverDocument(inf, f(_)) ==
    [WithRootSelections(inf, f(RootSelections(inf)))
         EXCEPT !.fragments = OverFragments(inf.fragments, f)]

\* every variable a condition of the document refers to has a binding
RECURSIVE VariablesBound(_, _)
VariablesBound(nodes, bindings) ==
    \A i \in 1..Len(nodes) :
        /\ \A j \in 1..Len(nodes[i].directives.v) :
               LET value == nodes[i].directives.v[j].arguments.v[1].value
               IN  value.kind = "Variable" =>
                       /\ Truthy(bindings)
                       /\ Lookup(bindings, value.name.value) # Undefined
        /\ VariablesBound(getNodes(nodes[i]), bindings)

DirectivesSet(opt, value) == Truthy(opt) /\ Prop(opt, "withDirectives") = value

\* the options with withDirectives set to value; options omitted become an
\* options object holding withDirectives only
WithDirectives(opt, value) ==
    [withDirectives |-> value] @@ (IF Truthy(opt) THEN opt ELSE [t |-> "object"])

\* the options without one option
Without(opt, name) == [p \in DOMAIN opt \ {name} |-> opt[p]]

\* every name of the path leads to a mapping of the tree
RECURSIVE Resolves(_, _)
Resolves(tree, names) ==
    \/ names = <<>>
    \/ \E i \in 1..Len(tree.e) :
           /\ tree.e[i].k = Head(names)
           /\ IsObj(tree.e[i].v)
           /\ Resolves(tree.e[i].v, Tail(names))

\* the empty result of an entry point
Empty(fn) == IF fn = "fieldsList" THEN Arr(<<>>) ELSE Obj(<<>>)

\* the key, or the entry the transform table holds under exactly that key
Renamed(key, opt) ==
    IF /\ Truthy(opt)
       /\ Truthy(Prop(opt, "transform"))
       /\ \E i \in 1..Len(opt.transform.e) : opt.transform.e[i].k = key
    THEN Lookup(opt.transform, key).v
    ELSE key

\* the list of field nodes of an info object, under either name
NodeList(inf) ==
    IF Truthy(Prop(inf, "fieldNodes")) THEN inf.fieldNodes.v
    ELSE IF Truthy(Prop(inf, "fieldASTs")) THEN inf.fieldASTs.v
    ELSE <<>>

\* the nodes of the list named as the info's field name
Matching(inf) ==
    SelectSeq(NodeList(inf),
              LAMBDA n : /\ "name" \in DOMAIN n
                         /\ "fieldName" \in DOMAIN inf
                         /\ n.name.value = inf.fieldName)

\* absent or malformed input: a falsy info, no list of field nodes, no node
\* of the declared field, or that node without a selection set
Malformed(inf) ==
    \/ ~Truthy(inf)
    \/ Matching(inf) = <<>>
    \/ "selectionSet" \notin DOMAIN Matching(inf)[1]

----
\* Claims

\* C1: fragment spreads and inline fragments introduce no name level: the
\* tree returned by fieldsMap is the tree returned for the same document with
\* every spread and inline fragment, at every depth, replaced by the
\* selections it stands for.
C1_FragmentsInPlace ==
    call.fn = "fieldsMap" =>
        ret = fieldsMap(
                  WithRootSelections(call.info,
                      InPlace(RootSelections(call.info), call.info.fragments)),
                  call.options)

\* a spread of F, which itself spreads G, below a nested field: the fields of
\* F and G are direct entries of the mapping of a
C1_Witness ==
    /\ call.fn = "fieldsMap"
    /\ NoPath(call.options)
    /\ RootSelections(call.info) =
           <<Field(<<"a">>, <<>>, <<FragmentSpread(<<"F">>, <<>>)>>)>>
    /\ Lookup(call.info.fragments, <<"G">>) =
           FragmentDefinition(<<"G">>, <<Field(<<"a">>, <<>>, <<>>),
                                        Field(<<"b">>, <<>>, <<>>)>>)
    /\ ret = Obj(<<[k |-> <<"a">>,
                   v |-> Obj(<<[k |-> <<"b">>,
                                v |-> Obj(<<[k |-> <<"a">>, v |-> False]>>)],
                               [k |-> <<"a">>, v |-> False]>>)]>>)

\* C2: repeated occurrences of a field name under one parent give one
\* entry, whose children are the union of the children of all occurrences,
\* and every mapping lists its keys in order of first occurrence.
C2_OneEntryPerName ==
    call.fn = "fieldsMap" =>
        ret = getBranch(
                  MergedTree(InPlace(RootSelections(call.info),
                                     call.info.fragments)),
                  Prop(call.options, "path"))

\* a { b } followed by a { a }: one entry a with children b, a in that order
C2_Witness ==
    /\ call.fn = "fieldsMap"
    /\ NoPath(call.options)
    /\ RootSelections(call.info) =
           <<Field(<<"a">>, <<>>, <<Field(<<"b">>, <<>>, <<>>)>>),
             Field(<<"a">>, <<>>, <<Field(<<"a">>, <<>>, <<>>)>>)>>
    /\ ret = Obj(<<[k |-> <<"a">>,
                   v |-> Obj(<<[k |-> <<"b">>, v |-> False],
                               [k |-> <<"a">>, v |-> False]>>)]>>)

\* C3: every value of the returned tree is the leaf sentinel false or a
\* mapping, and an entry is the leaf sentinel exactly when no occurrence of
\* the field has a sub-selection, whatever the order of the occurrences.
C3_LeafOrMapping ==
    (call.fn = "fieldsMap" /\ NoPath(call.options)) =>
        \A p \in TreePaths(ret) :
            LET occs == OccurrencesAt(
                            InPlace(RootSelections(call.info),
                                    call.info.fragments), p)
            IN  /\ TreeAt(ret, p) = False \/ IsObj(TreeAt(ret, p))
                /\ TreeAt(ret, p) = False <=>
                       \A i \in 1..Len(occs) : getNodes(occs[i]) = <<>>

\* b { a } followed by the leaf occurrence b: the entry stays a mapping
C3_Witness ==
    /\ call.fn = "fieldsMap"
    /\ NoPath(call.options)
    /\ RootSelections(call.info) =
           <<Field(<<"b">>, <<>>, <<Field(<<"a">>, <<>>, <<>>)>>),
             Field(<<"b">>, <<>>, <<>>)>>
    /\ ret = Obj(<<[k |-> <<"b">>, v |-> Obj(<<[k |-> <<"a">>, v |-> False]>>)]>>)

\* C6: directive evaluation is enabled by default: a call with the options
\* omitted, or with options that do not hold withDirectives, returns what
\* the same call returns with withDirectives: true.
C6_DirectivesByDefault ==
    (call.fn # "none" /\ Prop(call.options, "withDirectives") = Undefined) =>
        ret = Apply(call.fn, call.info, WithDirectives(call.options, True))

\* C7: with directive evaluation enabled, a node of any kind at any depth
\* contributes only when each of its directives passes (skip on false,
\* include on true, the value being the literal or the bound variable); a
\* node that fails contributes neither itself nor its subtree.
C7_ConditionsDecide ==
    (/\ call.fn = "fieldsMap"
     /\ DirectivesSet(call.options, True) \/ DirectivesSet(call.options, Undefined)
     /\ VariablesBound(RootSelections(call.info),
                       Prop(call.info, "variableValues"))) =>
        ret = fieldsMap(
                  OverDocument(call.info,
                      LAMBDA nodes : Surviving(nodes, call.info.variableValues)),
                  call.options)

\* a { b } @skip(if: false) @include(if: $v) with v bound to false: neither
\* a nor its child is in the tree
C7_Witness ==
    /\ call.fn = "fieldsMap"
    /\ call.options = Options(<<>>)
    /\ call.info.variableValues = Obj(<<[k |-> "v", v |-> False]>>)
    /\ RootSelections(call.info) =
           <<Field(<<"a">>,
                   <<Directive("skip", <<Argument(BooleanValue(FALSE))>>),
                     Directive("include", <<Argument(Variable("v"))>>)>>,
                   <<LeafB>>),
             LeafB>>
    /\ ret = Obj(<<[k |-> <<"b">>, v |-> False]>>)

\* C8: with withDirectives: false no node is dropped because of a
\* directive: every entry point returns what it returns for the same
\* document with every directive removed.
C8_DirectivesDisabled ==
    (call.fn # "none" /\ DirectivesSet(call.options, False)) =>
        ret = Apply(call.fn, OverDocument(call.info, Undirected),
                    WithDirectives(call.options, True))

\* withDirectives: false and a @skip(if: true): a is still in the tree
C8_Witness ==
    /\ call.fn = "fieldsMap"
    /\ call.options = Options([withDirectives |-> False])
    /\ RootSelections(call.info) =
           <<Field(<<"a">>,
                   <<Directive("skip", <<Argument(BooleanValue(TRUE))>>)>>,
                   <<>>),
             LeafB>>
    /\ ret = Obj(<<[k |-> <<"a">>, v |-> False], [k |-> <<"b">>, v |-> False]>>)

\* C4: fieldsList returns the immediate keys of fieldsMap called with the
\* same options, in the same order, each key replaced by the entry the
\* transform table holds under exactly that name.
C4_ListIsKeysOfMap ==
    call.fn = "fieldsList" =>
        LET tree == fieldsMap(call.info, call.options)
        IN  ret = Arr([i \in 1..Len(tree.e) |->
                          Renamed(tree.e[i].k, call.options)])

C10_MalformedIsEmpty ==
    (call.fn # "none" /\ Malformed(call.info)) => ret = Empty(call.fn)

\* the list holds the node of another field only: fieldsList returns []
C10_Witness ==
    /\ call.fn = "fieldsList"
    /\ Truthy(call.info)
    /\ NodeList(call.info) = <<Field(OtherName, <<>>, <<LeafA>>)>>
    /\ "fieldName" \in DOMAIN call.info
    /\ ret = Arr(<<>>)

\* the info object with its legacy list stored under the current name
Modern(inf) ==
    [fieldNodes |-> inf.fieldASTs] @@
    [p \in DOMAIN inf \ {"fieldNodes", "fieldASTs"} |-> inf[p]]

\* the info object stores a list under fieldASTs and none under fieldNodes
Legacy(inf) ==
    /\ Truthy(inf)
    /\ "fieldNodes" \notin DOMAIN inf
    /\ Truthy(Prop(inf, "fieldASTs"))

\* C11: an info object that stores its list of field nodes under fieldASTs
\* and has no fieldNodes gives, for every entry point and every options
\* value, the result of the same object with the list under fieldNodes.
C11_LegacyListAccepted ==
    (call.fn # "none" /\ Legacy(call.info)) =>
        ret = Apply(call.fn, Modern(call.info), call.options)

\* a well-formed list under fieldASTs only: the projection of its fields
C11_Witness ==
    /\ call.fn = "fieldsProjection"
    /\ call.options = Undefined
    /\ Legacy(call.info)
    /\ "fieldName" \in DOMAIN call.info
    /\ call.info.fieldASTs =
           Arr(<<Field(ResolverName, <<>>, <<LeafA, Field(<<"b">>, <<>>, <<LeafA>>)>>)>>)
    /\ ret = Obj(<<[k |-> <<"a">>, v |-> One], [k |-> <<"b", ".", "a">>, v |-> One]>>)

\* the pattern holds a wildcard
HasStar(pattern) == \E i \in 1..Len(pattern) : pattern[i] = "*"

\* the parts occur in the name in order, one after the other
RECURSIVE InOrder(_, _)
InOrder(parts, name) ==
    \/ parts = <<>>
    \/ \E i \in 1..(Len(name) + 1) :
           /\ i + Len(Head(parts)) - 1 <= Len(name)
           /\ SubSeq(name, i, i + Len(Head(parts)) - 1) = Head(parts)
           /\ InOrder(Tail(parts), SubSeq(name, i + Len(Head(parts)), Len(name)))

\* a literal segment names the field; a segment with wildcards names every
\* field that holds its literal parts in order
SegmentMatches(segment, name) ==
    IF HasStar(segment) THEN InOrder(Split(segment, "*"), name)
    ELSE segment = name

\* the segments of a pattern, a closing bare wildcard left out
Segments(pattern) ==
    LET all == Split(pattern, ".")
    IN  IF Len(all) > 1 /\ all[Len(all)] = <<"*">>
        THEN SubSeq(all, 1, Len(all) - 1) ELSE all

\* the pattern names the field at the key path or one of its ancestors
Touches(pattern, keyPath) ==
    /\ Len(Segments(pattern)) <= Len(keyPath)
    /\ \A i \in 1..Len(Segments(pattern)) :
           SegmentMatches(Segments(pattern)[i], keyPath[i])

SkipOf(opt) ==
    IF Truthy(opt) /\ Truthy(Prop(opt, "skip")) THEN opt.skip.v ELSE <<>>

\* C12: whatever the skip list and the order of its patterns, the field at
\* the dot path of each literal pattern is absent from the tree of fieldsMap
\* together with its subtree, and a field that no pattern names, itself or
\* through an ancestor, is kept.
C12_LiteralPatternsExclude ==
    (call.fn = "fieldsMap" /\ NoPath(call.options) /\ ret # Throw) =>
        /\ \A i \in 1..Len(SkipOf(call.options)) :
               ~HasStar(SkipOf(call.options)[i]) =>
                   Split(SkipOf(call.options)[i], ".") \notin TreePaths(ret)
        /\ \A p \in TreePaths(fieldsMap(call.info, Without(call.options, "skip"))) :
               (\A i \in 1..Len(SkipOf(call.options)) :
                    ~Touches(SkipOf(call.options)[i], p)) =>
                   p \in TreePaths(ret)

\* the options with another skip list
WithSkip(opt, list) == [skip |-> Arr(list)] @@ Without(opt, "skip")

\* the tree of the document before exclusion and navigation
FullTree(inf, opt) == fieldsMap(inf, Without(Without(opt, "skip"), "path"))

\* C13: for a literal dot path p that names a field with children, every
\* entry point returns with skip: [p] what it returns with skip: [p + '.*'],
\* and the field at p is absent from the tree with its subtree.
C13_WildcardSuffix ==
    (/\ call.fn # "none"
     /\ Len(SkipOf(call.options)) = 1
     /\ ~HasStar(SkipOf(call.options)[1])
     /\ Split(SkipOf(call.options)[1], ".") \in TreePaths(FullTree(call.info, call.options))
     /\ IsObj(TreeAt(FullTree(call.info, call.options),
                     Split(SkipOf(call.options)[1], ".")))) =>
        /\ ret = Apply(call.fn, call.info,
                       WithSkip(call.options,
                                <<SkipOf(call.options)[1] \o <<".", "*">>>>))
        /\ Split(SkipOf(call.options)[1], ".") \notin
               TreePaths(fieldsMap(call.info, Without(call.options, "path")))

\* skip: ['a.b'] where a.b has the child c: b and c are gone from a, as
\* with skip: ['a.b.*']
C13_Witness ==
    /\ call.fn = "fieldsMap"
    /\ call.options = Options([skip |-> Arr(<<<<"a", ".", "b">>>>)])
    /\ Lookup(Lookup(FullTree(call.info, call.options), <<"a">>), <<"b">>) =
           Obj(<<[k |-> <<"c">>, v |-> False]>>)
    /\ Lookup(ret, <<"a">>) =
           Obj(<<[k |-> <<"c">>, v |-> False], [k |-> <<"a", "b">>, v |-> False]>>)
    /\ ret = fieldsMap(call.info,
                       Options([skip |-> Arr(<<<<"a", ".", "b", ".", "*">>>>)]))

\* the fields present in the value an entry point returned: the key paths of
\* a tree, the names of a list, the keys of a projection
Present(fn, value) ==
    CASE fn = "fieldsMap" -> TreePaths(value)
      [] fn = "fieldsList" -> {value.v[i] : i \in 1..Len(value.v)}
      [] fn = "fieldsProjection" -> {value.e[i].k : i \in 1..Len(value.e)}

\* C14: adding a pattern to the skip list never adds a field to the output
\* of an entry point: the fields present with skip S plus q are among the
\* fields present with skip S.
C14_ExclusionMonotone ==
    (call.fn # "none" /\ ret # Throw) =>
        \A q \in Patterns :
            LET more == Apply(call.fn, call.info,
                              WithSkip(call.options, Append(SkipOf(call.options), q)))
            IN  more # Throw => Present(call.fn, more) \subseteq Present(call.fn, ret)

\* the tree without the fields the segments name: at each depth the fields
\* the segment of that depth matches are followed, at the last depth they
\* are removed with their subtrees
RECURSIVE Remove(_, _)
Remove(tree, segments) ==
    IF Len(segments) = 1
    THEN Obj(SelectSeq(tree.e, LAMBDA entry : ~SegmentMatches(segments[1], entry.k)))
    ELSE Obj([i \in 1..Len(tree.e) |->
                 IF SegmentMatches(Head(segments), tree.e[i].k) /\ IsObj(tree.e[i].v)
                 THEN [k |-> tree.e[i].k,
                       v |-> Remove(tree.e[i].v, Tail(segments))]
                 ELSE tree.e[i]])

\* C15: a pattern segment with the wildcard * in it excludes, at its depth,
\* every field whose name holds the literal parts of the segment in order,
\* with any characters before, between and after them; the other fields are
\* kept.
C15_WildcardInName ==
    (/\ call.fn = "fieldsMap"
     /\ Len(SkipOf(call.options)) = 1
     /\ HasStar(SkipOf(call.options)[1])) =>
        ret = getBranch(Remove(FullTree(call.info, call.options),
                               Segments(SkipOf(call.options)[1])),
                        Prop(call.options, "path"))

\* skip: ['a*'] removes a, ab and also ba, and keeps b and c
C15_Witness ==
    /\ call.fn = "fieldsMap"
    /\ call.options = Options([skip |-> Arr(<<<<"a", "*">>>>)])
    /\ Keys(FullTree(call.info, call.options)) =
           <<<<"a">>, <<"b">>, <<"a", "b">>, <<"b", "a">>, <<"c">>>>
    /\ Keys(ret) = <<<<"b">>, <<"c">>>>

\* the tree without the fields the patterns of a list name
RECURSIVE RemoveAll(_, _)
RemoveAll(tree, list) ==
    IF list = <<>> THEN tree
    ELSE RemoveAll(Remove(tree, Segments(Head(list))), Tail(list))

\* the dot path of a key path
RECURSIVE Dot(_)
Dot(keyPath) ==
    IF Len(keyPath) = 1 THEN keyPath[1]
    ELSE keyPath[1] \o <<".">> \o Dot(Tail(keyPath))

LeafPaths(tree) == {p \in TreePaths(tree) : TreeAt(tree, p) = False}

BranchPaths(tree) == {p \in TreePaths(tree) : IsObj(TreeAt(tree, p))}

KeepsParents(opt) == Truthy(opt) /\ Truthy(Prop(opt, "keepParentField"))

\* the keys of the projection of a tree: the dot path of every leaf, renamed
\* when the transform table holds exactly that dot path, and with
\* keepParentField the dot path of every branch
ProjectionKeys(tree, opt) ==
    {Renamed(Dot(p), opt) : p \in LeafPaths(tree)} \cup
    (IF KeepsParents(opt) THEN {Dot(p) : p \in BranchPaths(tree)} ELSE {})

\* C16: exclusion comes first: the patterns are matched against the
\* original field names from the top of the resolver's selection; the path
\* is navigated in the tree that is left, and names are rewritten last.
C16_ExclusionFirst ==
    (call.fn # "none" /\ Truthy(call.options)) =>
        LET left == getBranch(RemoveAll(FullTree(call.info, call.options),
                                        SkipOf(call.options)),
                              Prop(call.options, "path"))
        IN  CASE call.fn = "fieldsMap" -> ret = left
              [] call.fn = "fieldsList" ->
                     ret = Arr([i \in 1..Len(left.e) |->
                                   Renamed(left.e[i].k, call.options)])
              [] call.fn = "fieldsProjection" ->
                     Present(call.fn, ret) = ProjectionKeys(left, call.options)

\* path a with skip: ['a.b'] and c rewritten to z: b is gone from the list
\* of the fields of a
C16_Witness ==
    /\ call.fn = "fieldsList"
    /\ Prop(call.options, "path") = Str(<<"a">>)
    /\ Prop(call.options, "skip") = Arr(<<<<"a", ".", "b">>>>)
    /\ Truthy(Prop(call.options, "transform"))
    /\ Lookup(call.options.transform, <<"c">>) = Str(<<"z">>)
    /\ Keys(getBranch(FullTree(call.info, call.options), Str(<<"a">>))) =
           <<<<"b">>, <<"c">>, <<"a", "b">>>>
    /\ ret = Arr(<<<<"z">>, <<"a", "b">>>>)

\* skip: ['x'] where the transform table rewrites a to x: a is kept, as x
C16_RewrittenNameKept ==
    /\ call.fn = "fieldsList"
    /\ Prop(call.options, "path") = Undefined
    /\ Prop(call.options, "skip") = Arr(<<<<"x">>>>)
    /\ Truthy(Prop(call.options, "transform"))
    /\ Lookup(call.options.transform, <<"a">>) = Str(<<"x">>)
    /\ ret.v[1] = <<"x">>

NoTransform(opt) == ~Truthy(opt) \/ ~Truthy(Prop(opt, "transform"))

\* C17: without a transform table the keys of fieldsProjection are the dot
\* paths of the leaves of the tree fieldsMap returns for the same options
\* and, exactly when keepParentField is enabled, the dot paths of its
\* branches; every value is 1.
C17_ProjectionOfLeaves ==
    (call.fn = "fieldsProjection" /\ NoTransform(call.options)) =>
        LET tree == fieldsMap(call.info, call.options)
        IN  /\ Present(call.fn, ret) =
                   {Dot(p) : p \in LeafPaths(tree)} \cup
                   (IF KeepsParents(call.options)
                    THEN {Dot(p) : p \in BranchPaths(tree)} ELSE {})
            /\ \A i \in 1..Len(ret.e) : ret.e[i].v = One

\* keepParentField with skip: ['b.a']: the branch b, left without children,
\* has the key b, and the branches a and a.b have theirs
C17_Witness ==
    /\ call.fn = "fieldsProjection"
    /\ call.options = Options([skip |-> Arr(<<<<"b", ".", "a">>>>),
                               keepParentField |-> True])
    /\ Lookup(fieldsMap(call.info, call.options), <<"b">>) = Obj(<<>>)
    /\ Lookup(ret, <<"b">>) = One
    /\ Lookup(ret, <<"a", ".", "b">>) = One
    /\ Lookup(ret, <<"a", ".", "b", ".", "c">>) = One

\* without keepParentField the branch b that is left without children has
\* no key
C17_EmptyBranchSilent ==
    /\ call.fn = "fieldsProjection"
    /\ call.options = Options([skip |-> Arr(<<<<"b", ".", "a">>>>)])
    /\ Lookup(fieldsMap(call.info, call.options), <<"b">>) = Obj(<<>>)
    /\ Lookup(ret, <<"b">>) = Undefined

\* C18: in fieldsProjection the key of a leaf is the entry of the transform
\* table under the leaf's full dot path from the navigated root, when there
\* is one; an entry under the bare name or under a part of the path rewrites
\* nothing, and the key of a branch is never rewritten.
C18_TransformByFullPath ==
    (call.fn = "fieldsProjection" /\ ~NoTransform(call.options)) =>
        Present(call.fn, ret) =
            ProjectionKeys(fieldsMap(call.info, call.options), call.options)

\* the table holds a.c, a.b (a branch) and b: a.c is rewritten to y, the
\* branch a.b keeps its key and a.b.c is not rewritten through b
C18_Witness ==
    /\ call.fn = "fieldsProjection"
    /\ Prop(call.options, "path") = Undefined
    /\ Prop(call.options, "skip") = Undefined
    /\ Prop(call.options, "keepParentField") = True
    /\ ~NoTransform(call.options)
    /\ Lookup(call.options.transform, <<"a", ".", "b">>) = Str(<<"w">>)
    /\ Lookup(ret, <<"y">>) = One
    /\ Lookup(ret, <<"a", ".", "c">>) = Undefined
    /\ Lookup(ret, <<"a", ".", "b">>) = One
    /\ Lookup(ret, <<"w">>) = Undefined
    /\ Lookup(ret, <<"a", ".", "b", ".", "c">>) = One

\* the selection list without the spreads of fragments the table does not
\* hold, at every depth
RECURSIVE Defined(_, _)
Defined(nodes, fragments) ==
    IF nodes = <<>> THEN <<>>
    ELSE LET node == Head(nodes)
             kept == IF "selectionSet" \in DOMAIN node
                     THEN [node EXCEPT !.selectionSet =
                               SelectionSet(Defined(getNodes(node), fragments))]
                     ELSE node
         IN  (IF /\ node.kind = "FragmentSpread"
                 /\ Lookup(fragments, node.name.value) = Undefined
              THEN <<>> ELSE <<kept>>)
             \o Defined(Tail(nodes), fragments)

\* C19: a spread of a fragment that the fragment table does not hold adds
\* nothing to the tree: the result is the result for the document without
\* that spread, and no error is raised.
C19_UndefinedFragmentSilent ==
    call.fn # "none" =>
        ret = Apply(call.fn,
                    WithRootSelections(call.info,
                        Defined(RootSelections(call.info), call.info.fragments)),
                    call.options)

\* C20: for a well-formed document and any path, skip list and transform
\* table, the entry points return a value and never raise.
C20_NeverRaises == call.fn # "none" => ret # Throw

EntryPoints == {"fieldsMap", "fieldsList", "fieldsProjection"}

\* C21: no state survives a call: whatever a call leaves in the objects it
\* was given, every entry point returns for them afterwards what it returned
\* for them before, so a repeated call gives an equal result and no result
\* depends on the calls made earlier.
C21_NoStateSurvives ==
    [][\A fn \in EntryPoints :
           Apply(fn, info', options') = Apply(fn, info, options)]_vars

\* a second call with the objects of a first call: the info object was
\* passed in the legacy shape and carries the copied list; the condition
\* on a is evaluated as in the first call
C21_Witness ==
    /\ call.fn = "fieldsMap"
    /\ "fieldASTs" \in DOMAIN call.info
    /\ "fieldNodes" \in DOMAIN call.info
    /\ call.options = Options([withDirectives |-> True])
    /\ RootSelections(call.info) =
           <<Field(<<"a">>, <<Directive("include", <<Argument(Variable("v"))>>)>>,
                   <<>>),
             LeafB>>
    /\ call.info.variableValues = Obj(<<[k |-> "v", v |-> False]>>)
    /\ ret = Obj(<<[k |-> <<"b">>, v |-> False]>>)

\* C22: the info object is only read: after a call it has the properties
\* and values it had before the call, the legacy shape included.
C22_InputOnlyRead == [][info' = info]_vars

\* every segment of a pattern, a closing wildcard included
AllSegments(pattern) == Split(pattern, ".")

\* a bare wildcard stands before the last segment of the pattern
StarInside(pattern) ==
    \E i \in 1..(Len(AllSegments(pattern)) - 1) : AllSegments(pattern)[i] = <<"*">>

\* C23: a bare * that is not the last segment of its pattern is a key like
\* any other, leading to a nested scope: the segments after it take effect
\* below every field at its depth and the prefix before it is not excluded.
C23_StarInsidePattern ==
    (/\ call.fn = "fieldsMap"
     /\ Len(SkipOf(call.options)) = 1
     /\ StarInside(SkipOf(call.options)[1])) =>
        ret = getBranch(Remove(FullTree(call.info, call.options),
                               AllSegments(SkipOf(call.options)[1])),
                        Prop(call.options, "path"))

\* what an exclusion scope says about a field name: the value under the
\* exact key when there is one; else true when a matching wildcard key holds
\* true; else the scope under the last matching wildcard key; else nothing
Disposition(name, scope) ==
    IF ~IsObj(scope) THEN False
    ELSE IF \E i \in 1..Len(scope.e) : scope.e[i].k = name
    THEN scope.e[CHOOSE i \in 1..Len(scope.e) : scope.e[i].k = name].v
    ELSE LET matching == {i \in 1..Len(scope.e) :
                             /\ HasStar(scope.e[i].k)
                             /\ InOrder(Split(scope.e[i].k, "*"), name)}
         IN  IF \E i \in matching : scope.e[i].v = True THEN True
             ELSE IF matching = {} THEN False
             ELSE scope.e[CHOOSE i \in matching : \A j \in matching : j <= i].v

\* the tree without the fields a scope excludes, each kept field passing
\* its own scope to its children
RECURSIVE Scoped(_, _)
Scoped(tree, scope) ==
    LET kept == SelectSeq(tree.e, LAMBDA entry : Disposition(entry.k, scope) # True)
    IN  Obj([i \in 1..Len(kept) |->
                [k |-> kept[i].k,
                 v |-> IF IsObj(kept[i].v)
                       THEN Scoped(kept[i].v, Disposition(kept[i].k, scope))
                       ELSE kept[i].v]])

\* C24: a field is matched against its exclusion scope by the exact key
\* first and by the wildcard keys only without an exact key; a matching
\* wildcard key marked exclude-entirely prunes the field, otherwise the scope
\* of the last matching key goes to the children; an unmatched field is kept
\* and its children inherit no exclusion.
C24_ScopeMatching ==
    (call.fn = "fieldsMap" /\ skipTree(SkipOf(call.options)) # Throw) =>
        ret = getBranch(Scoped(FullTree(call.info, call.options),
                               skipTree(SkipOf(call.options))),
                        Prop(call.options, "path"))

\* skip: ['a*.b', '*.c']: both wildcard keys match a; the scope of the
\* last one is passed on, so a loses c and keeps b
C24_Witness ==
    /\ call.fn = "fieldsMap"
    /\ call.options = Options([skip |-> Arr(<<<<"a", "*", ".", "b">>,
                                              <<"*", ".", "c">>>>)])
    /\ Keys(Lookup(FullTree(call.info, call.options), <<"a">>)) =
           <<<<"b">>, <<"c">>, <<"a", "b">>>>
    /\ Keys(Lookup(ret, <<"a">>)) = <<<<"b">>, <<"a", "b">>>>

\* C30: the tree does not depend on the order of the patterns: for every
\* skip list, fieldsMap returns for each permutation of the list the tree it
\* returns for the list.
C30_OrderIndependent ==
    call.fn = "fieldsMap" =>
        \A f \in Permutations(1..Len(SkipOf(call.options))) :
            ret = fieldsMap(call.info,
                            WithSkip(call.options,
                                     [i \in 1..Len(SkipOf(call.options)) |->
                                         SkipOf(call.options)[f[i]]]))

\* C25: a node is expanded as a fragment because of its kind, not its name:
\* a field named like a fragment of the table has its own entry under its
\* name, and the selections of the fragment are not merged into its parent.
C25_FragmentByKind ==
    (/\ call.fn = "fieldsMap"
     /\ Defined(RootSelections(call.info), call.info.fragments) =
            RootSelections(call.info)) =>
        ret = getBranch(
                  MergedTree(InPlace(RootSelections(call.info),
                                     call.info.fragments)),
                  Prop(call.options, "path"))

\* the selection list with every alias taken away
RECURSIVE Unaliased(_)
Unaliased(nodes) ==
    IF nodes = <<>> THEN <<>>
    ELSE LET node == Head(nodes)
         IN  <<WithSelections(
                   [p \in DOMAIN node \ {"selectionSet", "alias"} |-> node[p]],
                   Unaliased(getNodes(node)))>>
             \o Unaliased(Tail(nodes))

\* C26: the entries are keyed by the name of the field, never by its alias:
\* every entry point returns for a document what it returns for the document
\* without the aliases, so an aliased selection merges with the selections
\* of the same name.
C26_KeyedByName ==
    call.fn # "none" =>
        ret = Apply(call.fn,
                    WithRootSelections(call.info,
                                       Unaliased(RootSelections(call.info))),
                    call.options)

\* x: a { a } next to a { b }: one entry a with the children of both and
\* no entry x
C26_Witness ==
    /\ call.fn = "fieldsMap"
    /\ NoPath(call.options)
    /\ RootSelections(call.info) =
           <<Aliased(<<"x">>, Field(<<"a">>, <<>>, <<LeafA>>)),
             Field(<<"a">>, <<>>, <<LeafB>>)>>
    /\ ret = Obj(<<[k |-> <<"a">>,
                   v |-> Obj(<<[k |-> <<"a">>, v |-> False],
                               [k |-> <<"b">>, v |-> False]>>)]>>)

\* the condition tests a variable that the bindings do not hold, or there
\* are no bindings
Unbound(directive, bindings) ==
    LET value == directive.arguments.v[1].value
    IN  /\ value.kind = "Variable"
        /\ \/ ~IsObj(bindings)
           \/ \A i \in 1..Len(bindings.e) : bindings.e[i].k # value.name.value

\* a condition on an unbound variable passes when it is a @skip and fails
\* when it is an @include; the other conditions pass on their value
SurvivesUnbound(node, bindings) ==
    \A i \in 1..Len(node.directives.v) :
        IF Unbound(node.directives.v[i], bindings)
        THEN node.directives.v[i].name.value = "skip"
        ELSE ConditionPasses(node.directives.v[i], bindings)

\* the selection list without the nodes that fail a condition, unbound
\* variables included, the nodes left carrying no directive
RECURSIVE SurvivingUnbound(_, _)
SurvivingUnbound(nodes, bindings) ==
    IF nodes = <<>> THEN <<>>
    ELSE LET node == Head(nodes)
             kept == [directives |-> Arr(<<>>)] @@
                     WithSelections(
                         [p \in DOMAIN node \ {"selectionSet"} |-> node[p]],
                         SurvivingUnbound(getNodes(node), bindings))
         IN  (IF SurvivesUnbound(node, bindings) THEN <<kept>> ELSE <<>>)
             \o SurvivingUnbound(Tail(nodes), bindings)

\* C27: absent variable bindings are an empty table and never cause an
\* error; where the directives are evaluated, a condition on a variable
\* without a binding drops the node when it is an @include and keeps it when
\* it is a @skip.
C27_UnboundVariable ==
    call.fn # "none" =>
        /\ ret # Throw
        /\ (DirectivesSet(call.options, True) \/ DirectivesSet(call.options, Undefined)) =>
               ret = Apply(call.fn,
                           OverDocument(call.info,
                               LAMBDA nodes :
                                   SurvivingUnbound(nodes, call.info.variableValues)),
                           WithDirectives(call.options, False))

\* no bindings at all: a { b } @include(if: $v) is dropped with its child,
\* b @skip(if: $v) is kept
C27_Witness ==
    /\ call.fn = "fieldsMap"
    /\ call.options = Options(<<>>)
    /\ call.info.variableValues = Undefined
    /\ RootSelections(call.info) =
           <<Field(<<"a">>, <<Directive("include", <<Argument(Variable("v"))>>)>>,
                   <<LeafB>>),
             LeafB>>
    /\ ret = Obj(<<[k |-> <<"b">>, v |-> False]>>)

\* the bindings hold no v: a @skip(if: $v) is kept
C27_SkipKept ==
    /\ call.fn = "fieldsList"
    /\ call.options = Options([withDirectives |-> True])
    /\ call.info.variableValues = Obj(<<>>)
    /\ RootSelections(call.info) =
           <<Field(<<"a">>, <<Directive("skip", <<Argument(Variable("v"))>>)>>,
                   <<>>),
             LeafB>>
    /\ ret = Arr(<<<<"a">>, <<"b">>>>)

\* the info object with one list of field nodes, under the current name
WithNodeList(inf, list) ==
    [fieldNodes |-> Arr(list)] @@
    [p \in DOMAIN inf \ {"fieldNodes", "fieldASTs"} |-> inf[p]]

\* C28: of several nodes of the list that carry the declared field name only
\* the first is used: every entry point returns what it returns for a list
\* of that node alone, and the empty result when that node has no selection
\* set, whatever the later nodes select.
C28_FirstMatchOnly ==
    (call.fn # "none" /\ Truthy(call.info) /\ Len(Matching(call.info)) > 1) =>
        /\ ret = Apply(call.fn,
                       WithNodeList(call.info, <<Matching(call.info)[1]>>),
                       call.options)
        /\ "selectionSet" \notin DOMAIN Matching(call.info)[1] =>
               ret = Empty(call.fn)

\* two nodes of the resolver's field, selecting a and b: the tree holds a
C28_Witness ==
    /\ call.fn = "fieldsMap"
    /\ call.options = Undefined
    /\ Truthy(call.info)
    /\ NodeList(call.info) =
           <<Field(ResolverName, <<>>, <<LeafA>>),
             Field(ResolverName, <<>>, <<LeafB>>)>>
    /\ ret = Obj(<<[k |-> <<"a">>, v |-> False]>>)

\* the first node of the resolver's field has no selection set, the second
\* selects a: the list of fields is empty
C28_FirstWithoutSelections ==
    /\ call.fn = "fieldsList"
    /\ Truthy(call.info)
    /\ NodeList(call.info) =
           <<Field(ResolverName, <<>>, <<>>),
             Field(ResolverName, <<>>, <<LeafA>>)>>
    /\ "fieldName" \in DOMAIN call.info
    /\ ret = Arr(<<>>)

\* a call is under way
Running == run.pc \in {"traverse", "project"}

\* the call has returned a value
Returned == run.pc = "done" /\ ret.t # "throw"

\* no field of the selection list, at any depth, has the name of a fragment
RECURSIVE ByKind(_, _)
ByKind(nodes, fragments) ==
    \A i \in 1..Len(nodes) :
        /\ nodes[i].kind = "Field" => Lookup(fragments, nodes[i].name.value) = Undefined
        /\ ByKind(getNodes(nodes[i]), fragments)

\* the fields of the document, those of its fragments included, are told
\* from its fragments by their names
NamesApart(inf) ==
    /\ ByKind(RootSelections(inf), inf.fragments)
    /\ \A i \in 1..Len(inf.fragments.e) :
           ByKind(getNodes(inf.fragments.e[i].v), inf.fragments)

\* C29: every call of an entry point on a finite document whose selections
\* are acyclic, fragments that spread fragments included, comes to its end
\* and returns a value.
C29_Terminates == Running ~> Returned

\* where the names of the fields differ from the names of the fragments the
\* call comes to its end
TerminatesNamesApart == (Running /\ NamesApart(call.info)) ~> Returned

\* the call followed statement by statement returns what the entry point
\* returns
StepsAgree ==
    Returned => ret = Apply(call.fn, call.info, call.options)

\* the queue of fieldsProjection: the root and every branch of the tree
\* entered it once, and left it once, in the order of entry
QueueOnce ==
    (Returned /\ call.fn = "fieldsProjection") =>
        /\ run.shifted = run.pushed
        /\ \A i, j \in 1..Len(run.pushed) : run.pushed[i] = run.pushed[j] => i = j
        /\ {run.pushed[i] : i \in 1..Len(run.pushed)} =
               {<<>>} \cup {Dot(p) : p \in BranchPaths(fieldsMap(call.info, call.options))}

\* { ...F } with a fragment F that selects a field named F: traverse calls
\* itself for the fragment F at the field F without end and the call ends in
\* the RangeError of the engine
StackOverflow ==
    /\ run.pc = "done"
    /\ ret = RangeError
    /\ RootSelections(call.info) = <<FragmentSpread(<<"F">>, <<>>)>>
    /\ Lookup(call.info.fragments, <<"F">>) =
           FragmentDefinition(<<"F">>, <<LeafA, Field(<<"F">>, <<>>, <<>>)>>)

====
